---- MODULE Spec2Model ----
(***************************************************************************)
(* Model of the tax engine of ITR_automation (src/tax_rules.py):           *)
(* calculate_tax, the slab / rebate / marginal-relief / surcharge / cess   *)
(* calculator, and suggest_savings, the advice heuristic built on it; and  *)
(* of the two HTTP handlers of src/main.py that share the in-memory        *)
(* snapshot user_data_store: /analyze-combined and /download-report.       *)
(*                                                                         *)
(* Money.  Inputs are whole rupees.  Every rate of the slab tables is a    *)
(* multiple of 5%, so the base tax is always a whole number of twentieths  *)
(* of a rupee; the variable tax and the slab operators hold the base tax   *)
(* in twentieths (Rupees(x) = 20 * x), which is exact.  The value returned *)
(* by calculate_tax is again in whole rupees: Python's round() of          *)
(* tax + tax * surcharge_rate + 4% cess, i.e. round-half-to-even.          *)
(***************************************************************************)
EXTENDS Integers, Sequences, FiniteSets, TLC

(***************************************************************************)
(* Bounds of the input space.                                              *)
(***************************************************************************)
\* incomes are taken within MaxOffset rupees of every threshold, and capped
\* inputs exceed their cap by 1..MaxOffset
MaxOffset == 1

Offsets == (0 - MaxOffset) .. MaxOffset

Abs(x) == IF x >= 0 THEN x ELSE 0 - x
Min(a, b) == IF a <= b THEN a ELSE b
Max(a, b) == IF a >= b THEN a ELSE b

\* x rupees, in twentieths
Rupees(x) == x * 20
\* p percent (p a multiple of 5) of x rupees, in twentieths: x * p/100 * 20
Pct(x, p) == x * (p \div 5)

(***************************************************************************)
(* calculate_tax, NEW regime                                               *)
(***************************************************************************)
\* mutant: the 15% band forgets the 40,000 accumulated by the 10% band
NewSlabTax_DroppedBand(slab_income) ==
    IF slab_income <= 400000 THEN 0
    ELSE IF slab_income <= 800000 THEN Pct(slab_income - 400000, 5)
    ELSE IF slab_income <= 1200000 THEN
        Rupees(20000) + Pct(slab_income - 800000, 10)
    ELSE IF slab_income <= 1600000 THEN
        Rupees(20000) + Pct(slab_income - 1200000, 15)
    ELSE IF slab_income <= 2000000 THEN
        Rupees(20000) + Rupees(40000) + Rupees(60000)
            + Pct(slab_income - 1600000, 20)
    ELSE IF slab_income <= 2400000 THEN
        Rupees(20000) + Rupees(40000) + Rupees(60000) + Rupees(80000)
            + Pct(slab_income - 2000000, 25)
    ELSE
        Rupees(20000) + Rupees(40000) + Rupees(60000) + Rupees(80000)
            + Rupees(100000) + Pct(slab_income - 2400000, 30)

NewSlabTax(slab_income) ==
    IF slab_income <= 400000 THEN 0
    ELSE IF slab_income <= 800000 THEN Pct(slab_income - 400000, 5)
    ELSE IF slab_income <= 1200000 THEN
        Rupees(20000) + Pct(slab_income - 800000, 10)
    ELSE IF slab_income <= 1600000 THEN
        Rupees(20000) + Rupees(40000) + Pct(slab_income - 1200000, 15)
    ELSE IF slab_income <= 2000000 THEN
        Rupees(20000) + Rupees(40000) + Rupees(60000)
            + Pct(slab_income - 1600000, 20)
    ELSE IF slab_income <= 2400000 THEN
        Rupees(20000) + Rupees(40000) + Rupees(60000) + Rupees(80000)
            + Pct(slab_income - 2000000, 25)
    ELSE
        Rupees(20000) + Rupees(40000) + Rupees(60000) + Rupees(80000)
            + Rupees(100000) + Pct(slab_income - 2400000, 30)

\* mutant: the marginal relief is left out, only the rebate remains
NewRebate_NoRelief(tax0, taxable) ==
    IF taxable <= 1200000 THEN 0 ELSE tax0

\* mutant: the rebate u/s 87A is left out, only the marginal relief remains
NewRebate_NoRebate(tax0, taxable) ==
    IF taxable > 1200000 /\ taxable <= 1275000
    THEN Min(tax0, Rupees(taxable - 1200000))
    ELSE tax0

\* rebate u/s 87A and the marginal relief just above it
NewRebate(tax0, taxable) ==
    IF taxable <= 1200000 THEN 0
    ELSE IF taxable <= 1275000 THEN Min(tax0, Rupees(taxable - 1200000))
    ELSE tax0

(***************************************************************************)
(* calculate_tax, OLD regime                                               *)
(***************************************************************************)
\* mutant: the NPS contribution is deducted without its 50,000 cap
TotalDeductions_NoNpsCap(age, investments_80c, medical_80d, housing_loan_interest, nps_80ccd_1b, savings_interest) ==
    LET std_deduction == 50000
        deduction_80c == Min(investments_80c, 150000)
        deduction_80d == Min(medical_80d, IF age >= 60 THEN 50000 ELSE 25000)
        deduction_nps == nps_80ccd_1b
        deduction_home_loan == Min(housing_loan_interest, 200000)
        limit_savings == IF age >= 60 THEN 50000 ELSE 10000
        deduction_savings == Min(savings_interest, limit_savings)
    IN  std_deduction + deduction_80c + deduction_80d
          + deduction_nps + deduction_home_loan + deduction_savings

TotalDeductions(age, investments_80c, medical_80d, housing_loan_interest, nps_80ccd_1b, savings_interest) ==
    LET std_deduction == 50000
        deduction_80c == Min(investments_80c, 150000)
        deduction_80d == Min(medical_80d, IF age >= 60 THEN 50000 ELSE 25000)
        deduction_nps == Min(nps_80ccd_1b, 50000)
        deduction_home_loan == Min(housing_loan_interest, 200000)
        limit_savings == IF age >= 60 THEN 50000 ELSE 10000
        deduction_savings == Min(savings_interest, limit_savings)
    IN  std_deduction + deduction_80c + deduction_80d
          + deduction_nps + deduction_home_loan + deduction_savings

\* mutant: the floor at 0 is forgotten
TaxableIncome_NoFloor(gross_income, age, investments_80c, medical_80d, housing_loan_interest, nps_80ccd_1b, savings_interest, regime) ==
    IF regime = "new" THEN gross_income - 75000
    ELSE IF regime = "old" THEN
        gross_income - TotalDeductions(age, investments_80c, medical_80d,
                           housing_loan_interest, nps_80ccd_1b,
                           savings_interest)
    ELSE 0

\* mutant: the NEW regime honours the 80C deduction as well
TaxableIncome_NewTakes80C(gross_income, age, investments_80c, medical_80d, housing_loan_interest, nps_80ccd_1b, savings_interest, regime) ==
    IF regime = "new" THEN
        Max(0, gross_income - 75000 - Min(investments_80c, 150000))
    ELSE IF regime = "old" THEN
        Max(0, gross_income
                 - TotalDeductions(age, investments_80c, medical_80d,
                       housing_loan_interest, nps_80ccd_1b, savings_interest))
    ELSE 0

\* taxable_income of either regime (0 when regime is neither)
TaxableIncome(gross_income, age, investments_80c, medical_80d, housing_loan_interest, nps_80ccd_1b, savings_interest, regime) ==
    IF regime = "new" THEN Max(0, gross_income - 75000)
    ELSE IF regime = "old" THEN
        Max(0, gross_income
                 - TotalDeductions(age, investments_80c, medical_80d,
                       housing_loan_interest, nps_80ccd_1b, savings_interest))
    ELSE 0

\* mutant: the age tests are strict
BasicExemption_StrictAge(age) ==
    IF age > 80 THEN 500000
    ELSE IF age > 60 THEN 300000
    ELSE 250000

BasicExemption(age) ==
    IF age >= 80 THEN 500000
    ELSE IF age >= 60 THEN 300000
    ELSE 250000

OldSlabTax(slab_income, basic_exemption) ==
    IF slab_income <= basic_exemption THEN 0
    ELSE IF slab_income <= 500000 THEN Pct(slab_income - basic_exemption, 5)
    ELSE IF slab_income <= 1000000 THEN
        Pct(500000 - basic_exemption, 5) + Pct(slab_income - 500000, 20)
    ELSE
        Pct(500000 - basic_exemption, 5) + Rupees(100000)
            + Pct(slab_income - 1000000, 30)

\* mutant: the rebate test is strict
OldRebate_Strict(tax0, taxable) == IF taxable < 500000 THEN 0 ELSE tax0

OldRebate(tax0, taxable) == IF taxable <= 500000 THEN 0 ELSE tax0

(***************************************************************************)
(* calculate_tax, surcharge, cess and rounding                             *)
(***************************************************************************)
\* mutant: the 10% and 15% tiers are exchanged
SurchargeRate_Swapped(taxable, regime) ==
    IF taxable > 5000000 THEN
        IF taxable <= 10000000 THEN 15
        ELSE IF taxable <= 20000000 THEN 10
        ELSE IF regime = "new" \/ taxable <= 50000000 THEN 25
        ELSE 37
    ELSE 0

\* surcharge rate in percent
SurchargeRate(taxable, regime) ==
    IF taxable > 5000000 THEN
        IF taxable <= 10000000 THEN 10
        ELSE IF taxable <= 20000000 THEN 15
        ELSE IF regime = "new" \/ taxable <= 50000000 THEN 25
        ELSE 37
    ELSE 0

\* mutant: ties are rounded up instead of to even
RoundHalfEven_HalfUp(whole, rem, den) ==
    IF 2 * rem >= den THEN whole + 1 ELSE whole

\* round(whole + rem/den) as Python rounds: to nearest, ties to even
RoundHalfEven(whole, rem, den) ==
    IF 2 * rem > den THEN whole + 1
    ELSE IF 2 * rem < den THEN whole
    ELSE IF whole % 2 = 0 THEN whole ELSE whole + 1

\* round(total_tax + cess), total_tax = tax + tax * rate, cess = 4% of it.
\* With tax20 the tax in twentieths and rate in percent the value is
\*   tax20 * (100 + rate) * 104 / (20 * 100 * 100)
\*     = tax20 * (13 * (100 + rate)) / 25000,
\* multiplied out in two parts so that every intermediate fits 32 bits.
TotalWithCess(tax20, rate) ==
    LET c == 13 * (100 + rate)
        hi == tax20 \div 25000
        lo == tax20 % 25000
    IN  RoundHalfEven(hi * c + ((lo * c) \div 25000), (lo * c) % 25000, 25000)

\* the locals of calculate_tax at its return statement
TaxLocals(gross_income, age, investments_80c, medical_80d, housing_loan_interest, nps_80ccd_1b, savings_interest, regime) ==
    LET taxable == TaxableIncome(gross_income, age, investments_80c,
                       medical_80d, housing_loan_interest, nps_80ccd_1b,
                       savings_interest, regime)
        base ==
            IF regime = "new" THEN NewRebate(NewSlabTax(taxable), taxable)
            ELSE IF regime = "old" THEN
                OldRebate(OldSlabTax(taxable, BasicExemption(age)), taxable)
            ELSE 0
        rate == SurchargeRate(taxable, regime)
    IN  [taxable_income |-> taxable, tax |-> base, surcharge_rate |-> rate,
         total |-> TotalWithCess(base, rate)]

calculate_tax(gross_income, age, investments_80c, medical_80d, housing_loan_interest, nps_80ccd_1b, savings_interest, regime) ==
    TaxLocals(gross_income, age, investments_80c, medical_80d,
              housing_loan_interest, nps_80ccd_1b, savings_interest,
              regime).total

(***************************************************************************)
(* suggest_savings.  A profile is a function from some of the profile keys *)
(* to values (a dict); an advice string is modelled by a record naming     *)
(* which message it is, with the amount or regime the message quotes.      *)
(***************************************************************************)
\* data.get(key, default)
Get(data, key, default) == IF key \in DOMAIN data THEN data[key] ELSE default

OtherRegime(regime) == IF regime = "new" THEN "old" ELSE "new"

\* calculate_tax as suggest_savings calls it for one regime: 80C and 80D are
\* passed only to the OLD computation, the other deductions never
RegimeTax(income, age, inv_80c, med_80d, regime) ==
    calculate_tax(income, age,
                  IF regime = "old" THEN inv_80c ELSE 0,
                  IF regime = "old" THEN med_80d ELSE 0,
                  0, 0, 0, regime)

\* mutant: the comparison of the two taxes is not strict
SwitchSuggestion_OnEqual(current_tax, other_tax, other_regime) ==
    IF other_tax <= current_tax
    THEN <<[kind |-> "switch_regime", to |-> other_regime,
            amount |-> current_tax - other_tax]>>
    ELSE <<>>

SwitchSuggestion(current_tax, other_tax, other_regime) ==
    IF other_tax < current_tax
    THEN <<[kind |-> "switch_regime", to |-> other_regime,
            amount |-> current_tax - other_tax]>>
    ELSE <<>>

\* mutant: the 80D advice is appended before the 80C advice
OldRegimeSuggestions_80DFirst(regime, inv_80c, med_80d) ==
    IF regime = "old" THEN
        (IF med_80d = 0 THEN <<[kind |-> "no_80d"]>>
         ELSE IF med_80d < 25000
         THEN <<[kind |-> "gap_80d", amount |-> 25000 - med_80d]>>
         ELSE <<>>)
        \o
        (IF inv_80c < 150000
         THEN <<[kind |-> "gap_80c", amount |-> 150000 - inv_80c]>>
         ELSE <<>>)
    ELSE <<>>

OldRegimeSuggestions(regime, inv_80c, med_80d) ==
    IF regime = "old" THEN
        (IF inv_80c < 150000
         THEN <<[kind |-> "gap_80c", amount |-> 150000 - inv_80c]>>
         ELSE <<>>)
        \o
        (IF med_80d = 0 THEN <<[kind |-> "no_80d"]>>
         ELSE IF med_80d < 25000
         THEN <<[kind |-> "gap_80d", amount |-> 25000 - med_80d]>>
         ELSE <<>>)
    ELSE <<>>

\* mutant: the upper end of the band is excluded
NewRegimeSuggestions_Strict(regime, income) ==
    IF regime = "new" THEN
        LET taxable == Max(0, income - 75000)
        IN  IF taxable > 1200000 /\ taxable < 1300000
            THEN <<[kind |-> "cliff"]>>
            ELSE <<>>
    ELSE <<>>

NewRegimeSuggestions(regime, income) ==
    IF regime = "new" THEN
        LET taxable == Max(0, income - 75000)
        IN  IF taxable > 1200000 /\ taxable <= 1300000
            THEN <<[kind |-> "cliff"]>>
            ELSE <<>>
    ELSE <<>>

GeneralSuggestions(income) ==
    IF income > 1500000 THEN <<[kind |-> "high_income"]>> ELSE <<>>

\* mutant: the affirmation is appended whatever was suggested before
Fallback_Always(suggestions) == Append(suggestions, [kind |-> "optimized"])

Fallback(suggestions) ==
    IF suggestions = <<>> THEN <<[kind |-> "optimized"]>> ELSE suggestions

\* the locals of suggest_savings at its return statement
AdviceLocals(data) ==
    LET income == Get(data, "total_income", 0)
        age_ == Get(data, "age", 30)
        inv_80c == Get(data, "investments_80c", 0)
        med_80d == Get(data, "medical_80d", 0)
        regime_ == Get(data, "regime", "new")
        current == RegimeTax(income, age_, inv_80c, med_80d, regime_)
        other_regime == OtherRegime(regime_)
        other == RegimeTax(income, age_, inv_80c, med_80d, other_regime)
    IN  [current_tax |-> current, other_tax |-> other,
         suggestions |->
            Fallback(SwitchSuggestion(current, other, other_regime)
                     \o OldRegimeSuggestions(regime_, inv_80c, med_80d)
                     \o NewRegimeSuggestions(regime_, income)
                     \o GeneralSuggestions(income))]

suggest_savings(data) == AdviceLocals(data).suggestions

(***************************************************************************)
(* Inputs of calculate_tax                                                 *)
(***************************************************************************)
Regimes == {"new", "old"}

Ages == {30, 59, 60, 79, 80}

\* taxable incomes at which the NEW / OLD computation changes branch
NewThresholds == {0, 400000, 800000, 1200000, 1275000, 1600000, 2000000,
                  2400000, 5000000, 10000000, 20000000, 50000000}
OldThresholds == {0, 250000, 300000, 500000, 1000000, 5000000, 10000000,
                  20000000, 50000000}

\* gross incomes: around every threshold shifted by the standard deduction of
\* either regime, plus the worked examples of the documentation
Incomes ==
    {g \in {t + 75000 + o : t \in NewThresholds, o \in Offsets}
           \cup {t + 50000 + o : t \in OldThresholds, o \in Offsets}
           \cup {0, 1000000, 1200000, 1325000, 1350125, 1350375} : g >= 0}

Over == 1 .. MaxOffset
Values80C == {0, 150000} \cup {150000 + o : o \in Over}
Values80D == {0, 25000} \cup {50000 + o : o \in Over}
ValuesHomeLoan == {0} \cup {200000 + o : o \in Over}
ValuesNPS == {0} \cup {50000 + o : o \in Over}
ValuesSavings == {0} \cup {10000 + o : o \in Over} \cup {50000 + o : o \in Over}

(***************************************************************************)
(* Inputs of suggest_savings                                               *)
(***************************************************************************)
ProfileKeys == {"total_income", "age", "investments_80c", "medical_80d", "regime"}

AdviceIncomes ==
    Incomes \cup {1375000 + o : o \in Offsets} \cup {1500000 + o : o \in Offsets}
AdviceAges == {30, 60, 80}
AdviceValues80C == {0, 150000} \cup {150000 - o : o \in Over}
AdviceValues80D == {0, 25000} \cup {25000 - o : o \in Over}

FullProfiles ==
    [total_income : AdviceIncomes, age : AdviceAges,
     investments_80c : AdviceValues80C, medical_80d : AdviceValues80D,
     regime : Regimes]

\* every profile, with any of its keys missing
Profiles == {[k \in K |-> p[k]] : p \in FullProfiles, K \in SUBSET ProfileKeys}

NoProfile == [k \in {} |-> 0]

(***************************************************************************)
(* The snapshot of main.py and the requests of its two handlers            *)
(***************************************************************************)
\* number of manual entries of one /analyze-combined request
MaxEntries == 2

\* the float +inf, which json.loads yields for 1e999 or Infinity and which
\* every float sum containing it stays at
Infinity == 2147483647

\* user_data_store["analysis"] before any analysis was stored
NoUpload == [text |-> "No PDF uploaded yet."]

InitialStore == [analysis |-> NoUpload]

NoResponse == [endpoint |-> "none", status |-> 0]

Amounts == {1400000, Infinity}
Categories == {"income", "80c", "80d", "expense"}

\* one element of the manual_entries list: a dict with an amount and a
\* category, or (ok = FALSE) something float() or .get() fails on
Entries ==
    [ok : {TRUE}, amount : Amounts, category : Categories]
      \cup {[ok |-> FALSE, amount |-> 0, category |-> "income"]}

EntryLists == UNION {[1 .. n -> Entries] : n \in 0 .. MaxEntries}

\* the manual_entries form field: a string json.loads rejects, or a list
ManualEntries ==
    {[json_ok |-> FALSE, entries |-> <<>>]}
      \cup {[json_ok |-> TRUE, entries |-> es] : es \in EntryLists}

NoValue == 0 - 1

VARIABLES
    pc,                     \* "call" before the call, "done" after the return
    gross_income, age, investments_80c, medical_80d,
    housing_loan_interest, nps_80ccd_1b, savings_interest, regime,
    taxable_income,         \* local of calculate_tax, rupees
    tax,                    \* local of calculate_tax before surcharge, twentieths
    surcharge_rate,         \* local of calculate_tax, percent
    result,                 \* value returned by calculate_tax, rupees
    data,                   \* argument of suggest_savings
    current_tax, other_tax, \* locals of suggest_savings, rupees
    suggestions,            \* list returned by suggest_savings
    user_data_store,        \* the module-level snapshot of main.py
    response,               \* answer to the last HTTP request
    stored_step,            \* history: the last request ran the store step
    ever_stored,            \* history: some request ran the store step
    last_stored             \* history: what the latest store step stored

args == <<gross_income, age, investments_80c, medical_80d,
          housing_loan_interest, nps_80ccd_1b, savings_interest, regime>>
taxLocals == <<taxable_income, tax, surcharge_rate, result>>
adviceVars == <<data, current_tax, other_tax, suggestions>>
appVars == <<user_data_store, response, stored_step, ever_stored, last_stored>>
vars == <<pc, args, taxLocals, adviceVars, appVars>>

\* the handlers' state when the process starts
AppStart ==
    /\ user_data_store = InitialStore
    /\ response = NoResponse
    /\ stored_step = FALSE
    /\ ever_stored = FALSE
    /\ last_stored = NoUpload

Init ==
    /\ pc = "call"
    /\ gross_income \in Incomes
    /\ age \in Ages
    /\ investments_80c \in Values80C
    /\ medical_80d \in Values80D
    /\ housing_loan_interest \in ValuesHomeLoan
    /\ nps_80ccd_1b \in ValuesNPS
    /\ savings_interest \in ValuesSavings
    /\ regime \in Regimes
    /\ taxable_income = 0
    /\ tax = 0
    /\ surcharge_rate = 0
    /\ result = NoValue
    /\ data = NoProfile
    /\ current_tax = NoValue
    /\ other_tax = NoValue
    /\ suggestions = <<>>
    /\ AppStart

CalculateTax ==
    /\ pc = "call"
    /\ LET l == TaxLocals(gross_income, age, investments_80c, medical_80d,
                          housing_loan_interest, nps_80ccd_1b,
                          savings_interest, regime)
       IN  /\ taxable_income' = l.taxable_income
           /\ tax' = l.tax
           /\ surcharge_rate' = l.surcharge_rate
           /\ result' = l.total
    /\ pc' = "done"
    /\ UNCHANGED <<args, adviceVars, appVars>>

Next == CalculateTax

Spec == Init /\ [][Next]_vars

(***************************************************************************)
(* One call of suggest_savings on a profile drawn from Profiles.           *)
(***************************************************************************)
InitAdvice ==
    /\ pc = "call"
    /\ data \in Profiles
    /\ current_tax = NoValue
    /\ other_tax = NoValue
    /\ suggestions = <<>>
    /\ gross_income = 0
    /\ age = 30
    /\ investments_80c = 0
    /\ medical_80d = 0
    /\ housing_loan_interest = 0
    /\ nps_80ccd_1b = 0
    /\ savings_interest = 0
    /\ regime = "new"
    /\ taxable_income = 0
    /\ tax = 0
    /\ surcharge_rate = 0
    /\ result = NoValue
    /\ AppStart

SuggestSavings ==
    /\ pc = "call"
    /\ LET l == AdviceLocals(data)
       IN  /\ current_tax' = l.current_tax
           /\ other_tax' = l.other_tax
           /\ suggestions' = l.suggestions
    /\ pc' = "done"
    /\ UNCHANGED <<data, args, taxLocals, appVars>>

NextAdvice == SuggestSavings

SpecAdvice == InitAdvice /\ [][NextAdvice]_vars

(***************************************************************************)
(* /analyze-combined and /download-report                                  *)
(***************************************************************************)
\* a + b on floats that may be +inf
FloatAdd(a, b) == IF a = Infinity \/ b = Infinity THEN Infinity ELSE a + b

\* d[k] = v on a dict
SetKey(d, k, v) == [x \in DOMAIN d \cup {k} |-> IF x = k THEN v ELSE d[x]]

\* length of the text extract_text_from_pdf returns: it opens the file with
\* pdfplumber, which logic.py never imports, so the NameError is caught and
\* the text is empty
extract_text_from_pdf == 0

ErrorData == [total_income |-> 0, error |-> "Empty PDF"]

\* what the language model may return for a statement text
AiOutcomes ==
    {ErrorData,
     [total_income |-> 1400000, investments_80c |-> 0, medical_80d |-> 0,
      expenses |-> 0]}

\* the possible results of analyze_with_ai on a text of the given length
analyze_with_ai(text_len) ==
    IF text_len < 50 THEN {ErrorData} ELSE AiOutcomes

BaseData ==
    [total_income |-> 0, investments_80c |-> 0, medical_80d |-> 0,
     expenses |-> 0, raw_transactions |-> <<>>]

\* one turn of the loop over manual_list
ApplyEntry(ai_data, entry) ==
    LET amt == entry.amount
        cat == entry.category
        plus(k) == FloatAdd(Get(ai_data, k, 0), amt)
        totals ==
            IF cat = "income" THEN SetKey(ai_data, "total_income", plus("total_income"))
            ELSE IF cat = "80c" THEN
                SetKey(SetKey(ai_data, "investments_80c", plus("investments_80c")),
                       "expenses", plus("expenses"))
            ELSE IF cat = "80d" THEN
                SetKey(SetKey(ai_data, "medical_80d", plus("medical_80d")),
                       "expenses", plus("expenses"))
            ELSE IF cat = "expense" THEN SetKey(ai_data, "expenses", plus("expenses"))
            ELSE ai_data
        new_txn == [amount |-> amt,
                    type |-> IF cat = "income" THEN "Credit" ELSE "Debit",
                    category |-> cat, is_manual |-> TRUE]
    IN  SetKey(totals, "raw_transactions",
               <<new_txn>> \o Get(totals, "raw_transactions", <<>>))

RECURSIVE ApplyEntries(_, _)
ApplyEntries(ai_data, entries) ==
    IF entries = <<>> THEN ai_data
    ELSE ApplyEntries(ApplyEntry(ai_data, Head(entries)), Tail(entries))

\* json.loads fails, or an element of the list makes float() or .get() fail
Malformed(manual_entries) ==
    \/ ~manual_entries.json_ok
    \/ \E i \in 1 .. Len(manual_entries.entries) : ~manual_entries.entries[i].ok

\* calculate_tax raises OverflowError in round() on an infinite income
TaxRaises(income) == income = Infinity

Recommendation(tax_new, tax_old) ==
    IF tax_new < tax_old THEN "New Regime" ELSE "Old Regime"

\* the two taxes both handlers compute from a snapshot
TaxNew(d) == calculate_tax(Get(d, "total_income", 0), 30, 0, 0, 0, 0, 0, "new")
TaxOld(d) == calculate_tax(Get(d, "total_income", 0), 30, Get(d, "investments_80c", 0), Get(d, "medical_80d", 0), 0, 0, 0, "old")

AnalyzeResponse(ai_data) ==
    IF TaxRaises(Get(ai_data, "total_income", 0))
    THEN [endpoint |-> "analyze", status |-> 500]
    ELSE [endpoint |-> "analyze", status |-> 200, analysis |-> ai_data,
          new_regime |-> TaxNew(ai_data), old_regime |-> TaxOld(ai_data),
          ca_suggestions |->
              <<[kind |-> "recommendation",
                 choose |-> Recommendation(TaxNew(ai_data), TaxOld(ai_data)),
                 amount |-> Abs(TaxNew(ai_data) - TaxOld(ai_data))]>>
              \o suggest_savings(ai_data)]

\* POST /analyze-combined
AnalyzeCombined(file, manual_entries) ==
    \E extracted_data \in (IF file THEN analyze_with_ai(extract_text_from_pdf)
                           ELSE {ErrorData}) :
        LET ai_data0 == IF file /\ "error" \notin DOMAIN extracted_data
                        THEN extracted_data ELSE BaseData
        IN  IF Malformed(manual_entries)
            THEN \* the exception is raised before the snapshot is written
                 /\ response' = [endpoint |-> "analyze", status |-> 500]
                 /\ stored_step' = FALSE
                 /\ UNCHANGED <<user_data_store, ever_stored, last_stored>>
            ELSE LET ai_data == ApplyEntries(ai_data0, manual_entries.entries)
                 IN  /\ user_data_store' = SetKey(user_data_store, "analysis", ai_data)
                     /\ stored_step' = TRUE
                     /\ ever_stored' = TRUE
                     /\ last_stored' = ai_data
                     /\ response' = AnalyzeResponse(ai_data)

\* the CSV report of a snapshot
Report(d) ==
    [endpoint |-> "download", status |-> 200,
     total_income |-> Get(d, "total_income", 0),
     expenses |-> Get(d, "expenses", 0),
     investments_80c |-> Get(d, "investments_80c", 0),
     medical_80d |-> Get(d, "medical_80d", 0),
     new_regime |-> TaxNew(d), old_regime |-> TaxOld(d),
     recommendation |-> Recommendation(TaxNew(d), TaxOld(d)),
     suggestions |-> suggest_savings(d),
     transactions |-> Get(d, "raw_transactions", <<>>)]

\* GET /download-report
DownloadReport ==
    /\ response' =
          IF "analysis" \notin DOMAIN user_data_store
               \/ user_data_store["analysis"] = NoUpload
          THEN [endpoint |-> "download", status |-> 400,
                error |-> "No data available."]
          ELSE IF TaxRaises(Get(user_data_store["analysis"], "total_income", 0))
          THEN \* unhandled OverflowError: the server answers 500
               [endpoint |-> "download", status |-> 500]
          ELSE Report(user_data_store["analysis"])
    /\ stored_step' = FALSE
    /\ UNCHANGED <<user_data_store, ever_stored, last_stored>>

InitApp ==
    /\ pc = "serve"
    /\ AppStart
    /\ data = NoProfile
    /\ current_tax = NoValue
    /\ other_tax = NoValue
    /\ suggestions = <<>>
    /\ gross_income = 0
    /\ age = 30
    /\ investments_80c = 0
    /\ medical_80d = 0
    /\ housing_loan_interest = 0
    /\ nps_80ccd_1b = 0
    /\ savings_interest = 0
    /\ regime = "new"
    /\ taxable_income = 0
    /\ tax = 0
    /\ surcharge_rate = 0
    /\ result = NoValue

NextApp ==
    \/ /\ \E file \in BOOLEAN, manual_entries \in ManualEntries :
              AnalyzeCombined(file, manual_entries)
       /\ UNCHANGED <<pc, args, taxLocals, adviceVars>>
    \/ /\ DownloadReport
       /\ UNCHANGED <<pc, args, taxLocals, adviceVars>>

SpecApp == InitApp /\ [][NextApp]_vars

(***************************************************************************)
(* Properties of calculate_tax                                             *)
(***************************************************************************)
\* the call of the same arguments with another gross income
TaxAt(g) ==
    calculate_tax(g, age, investments_80c, medical_80d,
                  housing_loan_interest, nps_80ccd_1b, savings_interest,
                  regime)

\* the deductions of the OLD regime as the documentation states them
ClaimedCap80D == IF age >= 60 THEN 50000 ELSE 25000
ClaimedCapSavings == IF age >= 60 THEN 50000 ELSE 10000
ClaimedOldDeductions ==
    50000 + Min(investments_80c, 150000) + Min(medical_80d, ClaimedCap80D)
      + Min(nps_80ccd_1b, 50000) + Min(housing_loan_interest, 200000)
      + Min(savings_interest, ClaimedCapSavings)
ClaimedOldTaxable == Max(0, gross_income - ClaimedOldDeductions)

\* C1: under the NEW regime, whenever max(0, gross_income - 75,000) is at
\* most 1,200,000 (gross_income up to 1,275,000), calculate_tax returns 0,
\* for every age and every deduction input.
C1_NewRebateIsFull ==
    (pc = "done" /\ regime = "new" /\ Max(0, gross_income - 75000) <= 1200000)
        => result = 0

C1_Witness ==
    /\ pc = "done" /\ regime = "new" /\ gross_income = 1275000
    /\ age = 80 /\ investments_80c > 150000
    /\ result = 0

\* C2: for a fixed regime, age and deductions the tax is non-decreasing in
\* gross_income: every call with a smaller or equal gross income returns at
\* most what this call returned.
C2_Monotone ==
    pc = "done" =>
        \A g \in Incomes : g <= gross_income => TaxAt(g) <= result

C2_Witness ==
    /\ pc = "done" /\ regime = "new" /\ gross_income = 5075001
    /\ TaxAt(5075000) > 0
    /\ TaxAt(5075000) < result

\* C3: under the OLD regime, a taxable income (gross income less the 50,000
\* standard deduction and the capped deductions, floored at 0) of at most
\* 500,000 gives tax 0; in particular every gross_income <= 500,000 with
\* age < 60 gives 0.
C3_OldRebateIsFull ==
    (pc = "done" /\ regime = "old") =>
        /\ ClaimedOldTaxable <= 500000 => result = 0
        /\ (gross_income <= 500000 /\ age < 60) => result = 0

C3_Witness ==
    /\ pc = "done" /\ regime = "old" /\ age = 30
    /\ ClaimedOldTaxable = 500000
    /\ result = 0

\* C4: under the OLD regime every deduction input counts only through its
\* clamped value: the call returns what the call with all five inputs
\* replaced by their clamped values returns, and an input above its cap
\* still yields a result.
C4_CapsByClamping ==
    (pc = "done" /\ regime = "old") =>
        /\ result >= 0
        /\ result = calculate_tax(gross_income, age,
                        Min(investments_80c, 150000),
                        Min(medical_80d, ClaimedCap80D),
                        Min(housing_loan_interest, 200000),
                        Min(nps_80ccd_1b, 50000),
                        Min(savings_interest, ClaimedCapSavings),
                        "old")

C4_Witness ==
    /\ pc = "done" /\ regime = "old"
    /\ investments_80c > 150000 /\ medical_80d > ClaimedCap80D
    /\ housing_loan_interest > 200000 /\ nps_80ccd_1b > 50000
    /\ savings_interest > ClaimedCapSavings
    /\ result > 0

\* C5: in both regimes the taxable income is >= 0 and the returned value is
\* a non-negative integer; when the standard deduction plus the capped
\* deductions reach gross_income the returned value is 0.
C5_NonNegative ==
    pc = "done" =>
        /\ taxable_income >= 0
        /\ result \in Nat
        /\ (regime = "new" /\ 75000 >= gross_income) => result = 0
        /\ (regime = "old" /\ ClaimedOldDeductions >= gross_income)
               => result = 0

C5_Witness ==
    /\ pc = "done" /\ regime = "old"
    /\ gross_income > 50000 /\ ClaimedOldDeductions > gross_income
    /\ taxable_income = 0 /\ result = 0

\* C6: under the NEW regime the result depends on gross_income only: every
\* call returns what the call with the same gross_income and default age and
\* no deductions returns, so any two NEW calls of one gross_income agree.
C6_NewIgnoresDeductions ==
    (pc = "done" /\ regime = "new") =>
        result = calculate_tax(gross_income, 30, 0, 0, 0, 0, 0, "new")

C6_Witness ==
    /\ pc = "done" /\ regime = "new" /\ age = 80
    /\ investments_80c > 0 /\ medical_80d > 0 /\ housing_loan_interest > 0
    /\ nps_80ccd_1b > 0 /\ savings_interest > 0
    /\ result > 0

\* the cumulative slab table of the documentation, in twentieths
ClaimedNewSlab(T) ==
    IF T <= 400000 THEN 0
    ELSE IF T <= 800000 THEN Pct(T - 400000, 5)
    ELSE IF T <= 1200000 THEN Rupees(20000) + Pct(T - 800000, 10)
    ELSE IF T <= 1600000 THEN Rupees(60000) + Pct(T - 1200000, 15)
    ELSE IF T <= 2000000 THEN Rupees(120000) + Pct(T - 1600000, 20)
    ELSE IF T <= 2400000 THEN Rupees(200000) + Pct(T - 2000000, 25)
    ELSE Rupees(300000) + Pct(T - 2400000, 30)

\* C7: under the NEW regime the base tax before surcharge and cess is the
\* cumulative slab table applied to T = max(0, gross_income - 75,000),
\* replaced by 0 when T <= 1,200,000 and by min(slab tax, T - 1,200,000)
\* when 1,200,000 < T <= 1,275,000; from T = 1,275,001 on it is the full
\* slab tax.
C7_NewBaseTax ==
    (pc = "done" /\ regime = "new") =>
        LET T == Max(0, gross_income - 75000)
        IN  /\ taxable_income = T
            /\ tax = IF T <= 1200000 THEN 0
                     ELSE IF T <= 1275000
                     THEN Min(ClaimedNewSlab(T), Rupees(T - 1200000))
                     ELSE ClaimedNewSlab(T)

C7_Witness ==
    /\ pc = "done" /\ regime = "new"
    /\ taxable_income = 1250000
    /\ tax = Rupees(50000)
    /\ ClaimedNewSlab(1250000) > Rupees(50000)

\* the OLD regime exemption and slab formula of the documentation
ClaimedExemption == IF age >= 80 THEN 500000
                    ELSE IF age >= 60 THEN 300000 ELSE 250000
ClaimedOldSlab(T, E) ==
    IF T <= E THEN 0
    ELSE IF T <= 500000 THEN Pct(T - E, 5)
    ELSE IF T <= 1000000 THEN Pct(500000 - E, 5) + Pct(T - 500000, 20)
    ELSE Pct(500000 - E, 5) + Rupees(100000) + Pct(T - 1000000, 30)
ClaimedOldBase(T, E) == IF T <= 500000 THEN 0 ELSE ClaimedOldSlab(T, E)

\* C8: under the OLD regime the base tax is the slab formula on the taxable
\* income T and the age-dependent exemption E (0 up to E, 5% of T - E up to
\* 500,000, 5% of (500,000 - E) plus 20% of the excess over 500,000 up to
\* 1,000,000, 5% of (500,000 - E) plus 100,000 plus 30% of the excess over
\* 1,000,000 above), then set to 0 if T <= 500,000; gross income 1,200,000
\* at age 30 with 80C 150,000 and 80D 25,000 returns 111,800.
C8_OldBaseTax ==
    (pc = "done" /\ regime = "old") =>
        /\ tax = ClaimedOldBase(taxable_income, ClaimedExemption)
        /\ (/\ gross_income = 1200000 /\ age = 30
            /\ investments_80c = 150000 /\ medical_80d = 25000
            /\ housing_loan_interest = 0 /\ nps_80ccd_1b = 0
            /\ savings_interest = 0) => result = 111800

C8_Witness ==
    /\ pc = "done" /\ regime = "old"
    /\ gross_income = 1200000 /\ age = 30
    /\ investments_80c = 150000 /\ medical_80d = 25000
    /\ housing_loan_interest = 0 /\ nps_80ccd_1b = 0 /\ savings_interest = 0
    /\ taxable_income = 975000 /\ tax = Rupees(107500)
    /\ result = 111800

\* the surcharge table of the documentation, in percent
ClaimedRate ==
    IF taxable_income <= 5000000 THEN 0
    ELSE IF taxable_income <= 10000000 THEN 10
    ELSE IF taxable_income <= 20000000 THEN 15
    ELSE IF regime = "new" THEN 25
    ELSE IF taxable_income <= 50000000 THEN 25
    ELSE 37

\* taxable incomes just below a change of the surcharge rate
SurchargeCliff ==
    \/ taxable_income \in {5000000, 10000000, 20000000}
    \/ regime = "old" /\ taxable_income = 50000000

\* C9: the returned value is base_tax * (1 + r) * 1.04 rounded to the
\* nearest integer (ties to even), r being the surcharge rate of the table
\* read at the taxable income; nothing smooths a surcharge threshold, so one
\* more rupee of income across it raises the result by more than a rupee.
\* With tax in twentieths the exact value is tax * c / 25000,
\* c = 13 * (100 + r); err is 25000 * (result - exact value).
C9_SurchargeCessRound ==
    pc = "done" =>
        LET c == 13 * (100 + ClaimedRate)
            err == 25000 * (result - (tax \div 25000) * c)
                     - (tax % 25000) * c
        IN  /\ surcharge_rate = ClaimedRate
            /\ 2 * Abs(err) <= 25000
            /\ 2 * Abs(err) = 25000 => result % 2 = 0
            /\ SurchargeCliff => TaxAt(gross_income + 1) > result + 1

C9_Witness ==
    /\ pc = "done" /\ regime = "new"
    /\ gross_income = 5075000 /\ taxable_income = 5000000
    /\ surcharge_rate = 0
    /\ TaxAt(gross_income + 1) > result + 100000

(***************************************************************************)
(* Properties of suggest_savings                                           *)
(***************************************************************************)
Has(kind) == \E i \in 1 .. Len(suggestions) : suggestions[i].kind = kind

SomeAdvice ==
    \/ Has("switch_regime") \/ Has("gap_80c") \/ Has("no_80d")
    \/ Has("gap_80d") \/ Has("cliff") \/ Has("high_income")

\* C10: for every profile, also one with missing keys, the returned list
\* has at least one entry; the "already optimized" entry is in it exactly
\* when no switch-regime, 80C, 80D, cliff or high-income suggestion is, and
\* it is then the only entry.
C10_NeverEmpty ==
    pc = "done" =>
        /\ Len(suggestions) >= 1
        /\ Has("optimized") <=> ~SomeAdvice
        /\ Has("optimized") => suggestions = <<[kind |-> "optimized"]>>

C10_Witness ==
    /\ pc = "done"
    /\ "regime" \notin DOMAIN data /\ "age" \notin DOMAIN data
    /\ "total_income" \in DOMAIN data /\ data["total_income"] > 0
    /\ suggestions = <<[kind |-> "optimized"]>>

\* the place of each kind of advice in the documented order
Rank(kind) ==
    CASE kind = "switch_regime" -> 1
      [] kind = "gap_80c" -> 2
      [] kind \in {"no_80d", "gap_80d"} -> 3
      [] kind = "cliff" -> 4
      [] kind = "high_income" -> 5
      [] kind = "optimized" -> 6

\* C11: the entries of every returned list are in one fixed order: the
\* switch-regime suggestion first, then the 80C gap and the 80D advice (OLD)
\* or the cliff-avoidance advice (NEW), then the high-income heuristic, then
\* the fallback; no kind appears twice.  (That identical profiles give
\* identical lists needs no check: the list is a function of the profile.)
C11_FixedOrder ==
    pc = "done" =>
        \A i \in 1 .. Len(suggestions) : \A j \in 1 .. Len(suggestions) :
            i < j => Rank(suggestions[i].kind) < Rank(suggestions[j].kind)

C11_Witness ==
    /\ pc = "done"
    /\ Len(suggestions) = 4
    /\ suggestions[1].kind = "switch_regime"
    /\ suggestions[2].kind = "gap_80c"
    /\ suggestions[3].kind = "gap_80d"
    /\ suggestions[4].kind = "high_income"

(***************************************************************************)
(* Marginal relief                                                         *)
(***************************************************************************)
InReliefBand ==
    pc = "done" /\ regime = "new"
      /\ taxable_income > 1200000 /\ taxable_income <= 1275000

\* C12 as stated: in the relief band the value returned by calculate_tax
\* never exceeds taxable_income - 1,200,000.
C12_ReturnWithinExcess ==
    InReliefBand => result <= taxable_income - 1200000

\* C12, amended: in the relief band the base tax before surcharge and cess
\* never exceeds taxable_income - 1,200,000; the returned value adds the 4%
\* cess to it and so stays within 1.04 * (taxable_income - 1,200,000),
\* rounded, which is more than the excess.
C12_BaseWithinExcess ==
    InReliefBand =>
        /\ tax <= Rupees(taxable_income - 1200000)
        /\ surcharge_rate = 0
        /\ 50 * result <= 52 * (taxable_income - 1200000) + 25

C12_Witness ==
    /\ InReliefBand
    /\ taxable_income = 1250000
    /\ tax = Rupees(50000)
    /\ NewSlabTax(taxable_income) > tax
    /\ result = 52000

(***************************************************************************)
(* The switch-regime and cliff-avoidance suggestions                       *)
(***************************************************************************)
ClaimedRegime == Get(data, "regime", "new")
ClaimedAlternate == IF ClaimedRegime = "new" THEN "old" ELSE "new"
ClaimedIncome == Get(data, "total_income", 0)

\* the tax of the profile under regime r: same income and age, the 80C and
\* 80D amounts only when r is OLD
ClaimedTax(r) ==
    calculate_tax(ClaimedIncome, Get(data, "age", 30),
                  IF r = "old" THEN Get(data, "investments_80c", 0) ELSE 0,
                  IF r = "old" THEN Get(data, "medical_80d", 0) ELSE 0,
                  0, 0, 0, r)

\* C13: the switch-regime suggestion is emitted exactly when the tax of the
\* alternate regime is strictly lower than the tax of the current regime;
\* it names the alternate regime and quotes current tax minus alternate
\* tax, which is strictly positive; equal taxes give no switch suggestion.
C13_SwitchIffCheaper ==
    pc = "done" =>
        LET cur == ClaimedTax(ClaimedRegime)
            alt == ClaimedTax(ClaimedAlternate)
        IN  /\ current_tax = cur /\ other_tax = alt
            /\ Has("switch_regime") <=> alt < cur
            /\ Has("switch_regime") =>
                   /\ suggestions[1] = [kind |-> "switch_regime",
                                        to |-> ClaimedAlternate,
                                        amount |-> cur - alt]
                   /\ cur - alt > 0
            /\ alt = cur => ~Has("switch_regime")

C13_Witness ==
    /\ pc = "done"
    /\ ClaimedRegime = "old"
    /\ Get(data, "investments_80c", 0) > 0
    /\ Has("switch_regime")
    /\ suggestions[1].to = "new"
    /\ suggestions[1].amount = current_tax - other_tax
    /\ other_tax > 0

ClaimedNewTaxable == Max(0, ClaimedIncome - 75000)

\* C14 as stated: the cliff-avoidance suggestion is emitted exactly for a
\* NEW-regime profile whose taxable income lies strictly between 1,200,000
\* and 1,300,000.
C14_CliffStrictlyInside ==
    pc = "done" =>
        (Has("cliff") <=>
            /\ ClaimedRegime = "new"
            /\ ClaimedNewTaxable > 1200000
            /\ ClaimedNewTaxable < 1300000)

\* C14, amended: the cliff-avoidance suggestion is emitted exactly for a
\* NEW-regime profile with 1,200,000 < taxable income <= 1,300,000: not at
\* 1,200,000, still at 1,300,000, not at 1,300,001, and never for OLD.
C14_CliffBand ==
    pc = "done" =>
        (Has("cliff") <=>
            /\ ClaimedRegime = "new"
            /\ ClaimedNewTaxable > 1200000
            /\ ClaimedNewTaxable <= 1300000)

C14_Witness ==
    /\ pc = "done"
    /\ ClaimedRegime = "new"
    /\ ClaimedNewTaxable = 1300000
    /\ Has("cliff")

(***************************************************************************)
(* Properties of the snapshot                                              *)
(***************************************************************************)
Downloaded == response.endpoint = "download"

\* /download-report answers 400 "No data available." as long as no
\* /analyze-combined request has run its store step
C15_NoData400 ==
    (Downloaded /\ ~ever_stored) =>
        /\ response.status = 400
        /\ response.error = "No data available."

\* once a request has stored a result, /download-report never answers 400
C15_Never400AfterStore ==
    (Downloaded /\ ever_stored) => response.status # 400

\* a request that fails before the store step leaves the snapshot unchanged
C15_FailedRequestKeepsSnapshot ==
    [][(response'.endpoint = "analyze" /\ ~stored_step')
          => user_data_store' = user_data_store]_vars

\* once a request has stored a result, /download-report answers with the
\* report of the totals of the most recently stored analysis
C15_ReportAfterStore ==
    (Downloaded /\ ever_stored) =>
        /\ response.status = 200
        /\ response.total_income = Get(last_stored, "total_income", 0)
        /\ response.expenses = Get(last_stored, "expenses", 0)
        /\ response.investments_80c = Get(last_stored, "investments_80c", 0)
        /\ response.medical_80d = Get(last_stored, "medical_80d", 0)

\* C15: over any sequence of /analyze-combined and /download-report
\* requests, /download-report answers 400 "No data available." while no
\* request has stored a result, and once a request has stored one it never
\* answers 400 again and reports the totals of the most recently stored
\* analysis.  (The third part of the claim, that a request failing before
\* the store step leaves the snapshot unchanged, is
\* C15_FailedRequestKeepsSnapshot.)
C15_DownloadFollowsSnapshot ==
    /\ C15_NoData400
    /\ C15_Never400AfterStore
    /\ C15_ReportAfterStore

====
